---- MODULE Spec2Model ----
(***************************************************************************)
(* A model of app.py: the video service (save_video, generate_thumbnail),  *)
(* the user service (create_user, authenticate_user) and the request       *)
(* handlers upload, delete_video, login, register and delete_user.         *)
(*                                                                         *)
(* Every request is served by a worker thread.  A handler is cut into      *)
(* steps at the points where it touches state that other requests share:   *)
(* the two asset directories and the database.  Everything a handler does  *)
(* between two such points belongs to one step.                            *)
(***************************************************************************)
EXTENDS Integers, Sequences, FiniteSets, TLC

VARIABLES
    clock,          \* datetime.utcnow(), in whole seconds
    videoStore,     \* static/uploads: the storage filenames that exist
    thumbStore,     \* static/thumbnails: the thumbnail filenames that exist
    videos,         \* the committed rows of table Video
    users,          \* the committed rows of table User
    sessions,       \* user ids for which login_user has been called
    nextUpload,     \* number of uploads that save_video has accepted
    req,            \* per worker thread: the request it is serving and its position
    response,       \* what the step just taken has answered to its client, if it answered
    flashed         \* the messages the login handler has flashed, each with the
                    \* reason authenticate_user had (the reason is not shown)

vars == <<clock, videoStore, thumbStore, videos, users, sessions, nextUpload, req,
          response, flashed>>

----------------------------------------------------------------------------
(* Bounds of the model *)

MaxTime == 1
MaxUploads == 2
MaxUsers == 3

Workers == {1, 2}

----------------------------------------------------------------------------
(* Strings.  A file name is the sequence of its characters, so that        *)
(* rsplit('.', 1) and lower() are computed and not assumed.                *)

NoFile == << >>

FileNames ==
    { <<"a", ".", "m", "p", "4">>,
      <<"a", ".", "M", "P", "4">>,
      <<"a", ".", "t", "x", "t">>,
      <<"a", ".", "m", "p", "4", ".", "t", "x", "t">>,
      <<"m", "p", "4">>,
      NoFile }

\* request.form.get('title') is None when the form has no title field
NoTitle == "None"

Titles == {"Cat Video", NoTitle}

ALLOWED_EXTENSIONS ==
    { <<"m", "p", "4">>, <<"a", "v", "i">>, <<"m", "o", "v">>,
      <<"w", "m", "v">>, <<"f", "l", "v">>, <<"m", "k", "v">> }

\* str.lower() on one character
lower(c) ==
    CASE c = "M" -> "m"
      [] c = "P" -> "p"
      [] c = "A" -> "a"
      [] c = "V" -> "v"
      [] c = "I" -> "i"
      [] OTHER -> c

lowerAll(s) == [i \in 1..Len(s) |-> lower(s[i])]

HasDot(s) == \E i \in 1..Len(s) : s[i] = "."

\* index of the last '.' of s (s holds one)
LastDot(s) == CHOOSE i \in 1..Len(s) : s[i] = "." /\ \A j \in (i+1)..Len(s) : s[j] # "."

\* s.rsplit('.', 1)[0] and s.rsplit('.', 1)[1]
rsplitHead(s) == IF HasDot(s) THEN SubSeq(s, 1, LastDot(s) - 1) ELSE s
rsplitTail(s) == SubSeq(s, LastDot(s) + 1, Len(s))

is_allowed_file(filename) ==
    HasDot(filename) /\ lowerAll(rsplitTail(filename)) \in ALLOWED_EXTENSIONS

\* datetime.utcnow().strftime('%Y%m%d_%H%M%S')
strftime(t) ==
    CASE t = 0 -> "20240101_000000"
      [] t = 1 -> "20240101_000001"
      [] t = 2 -> "20240101_000002"
      [] OTHER -> "20240101_000003"

storage_filename(t, name) == <<strftime(t), "_">> \o name

thumbnail_filename(filename) == <<"thumb_">> \o rsplitHead(filename) \o <<".jpg">>

----------------------------------------------------------------------------
(* The file system and the tables *)

exists(store, path) == path \in store

\* creating or overwriting the file at path
write(store, path) == store \cup {path}

remove(store, path) == store \ {path}

Max(S) == CHOOSE n \in S : \A m \in S : m <= n

\* the integer primary key of a new row
NextId(rows) == IF rows = {} THEN 1 ELSE Max({r.id : r \in rows}) + 1

----------------------------------------------------------------------------
(* Password hashes: werkzeug's digest is salted and one-way; the model     *)
(* keeps of it that check_password_hash accepts exactly the hashed word.   *)

generate_password_hash(password) == <<"pbkdf2", password>>

check_password_hash(pwhash, password) == pwhash = generate_password_hash(password)

Usernames == {"piyu", "bob", "eve"}

Passwords == {"piyu", "password1"}

\* the superuser row the start-up block inserts
Superuser ==
    [id |-> 1, username |-> "piyu",
     password_hash |-> generate_password_hash("piyu"), is_superuser |-> TRUE]

\* a row that register has inserted
Registered(id, username, password) ==
    [id |-> id, username |-> username,
     password_hash |-> generate_password_hash(password), is_superuser |-> FALSE]

----------------------------------------------------------------------------
(* The request a worker thread serves *)

Idle ==
    [op |-> "none", pc |-> "idle",
     filename |-> NoFile, thumbnail_filename |-> NoFile,
     opened |-> {}, cause |-> "none", vNew |-> FALSE,
     target |-> 0, thumbTried |-> FALSE, commitTried |-> FALSE,
     username |-> "", password |-> ""]

NoResponse == [op |-> "none"]

\* a step inside a handler: thread w goes on with locals r
Step(w, r) ==
    /\ req' = [req EXCEPT ![w] = r]
    /\ response' = NoResponse

\* the handler of thread w ends: `raised` is the exception that left the
\* service call or the handler's try block ("none" when none did), `result`
\* what the client gets.  The thread is free for the next request.
Reply(w, r, raised, result) ==
    /\ req' = [req EXCEPT ![w] = Idle]
    /\ response' = [op |-> r.op, cause |-> r.cause, raised |-> raised, result |-> result,
                    filename |-> r.filename, thumbnail_filename |-> r.thumbnail_filename,
                    thumbTried |-> r.thumbTried, commitTried |-> r.commitTried,
                    target |-> r.target, username |-> r.username]

Free(w) == req[w].pc = "idle"

\* flask_login: the session cookie names a user id, load_user looks the row up
Clients == sessions \cup {0}

Authenticated(u) == u \in sessions /\ \E x \in users : x.id = u

current_user(u) == CHOOSE x \in users : x.id = u

----------------------------------------------------------------------------
(* VideoService.save_video, as the upload handler calls it *)

\* The except clause of save_video, line 78, reads the local video_path.
\* Line 66 assigns it; a read before that raises UnboundLocalError, which
\* leaves save_video in place of the VideoUploadError of line 80.
read_video_path(assigned) == IF assigned THEN "none" ELSE "UnboundLocalError"

\* what leaves save_video when line 60 or line 63 has raised
save_video_rejected == read_video_path(FALSE)

\* What the upload handler answers to an exception leaving save_video or the
\* commit: it catches VideoUploadError alone (line 237).
upload_response(raised) == IF raised = "VideoUploadError" THEN "flash" ELSE "error500"

\* upload(), lines 216-226, and save_video down to line 66.  MaxUploads caps
\* the number of uploads that get past the two checks.
upload(w) ==
    /\ Free(w)
    /\ \E u \in Clients, name \in FileNames :
         LET r == [Idle EXCEPT !.op = "upload"]
             accepted == /\ Authenticated(u)
                         /\ current_user(u).is_superuser
                         /\ name # NoFile
                         /\ is_allowed_file(name)
         IN
         /\ nextUpload' = IF accepted THEN nextUpload + 1 ELSE nextUpload
         /\ IF ~Authenticated(u) THEN Reply(w, r, "none", "login")
            ELSE IF ~current_user(u).is_superuser THEN Reply(w, r, "none", "denied")
            ELSE IF name = NoFile
                 THEN Reply(w, [r EXCEPT !.cause = "no_file"],
                            save_video_rejected, upload_response(save_video_rejected))
            ELSE IF ~is_allowed_file(name)
                 THEN Reply(w, [r EXCEPT !.cause = "file_type"],
                            save_video_rejected, upload_response(save_video_rejected))
            ELSE /\ nextUpload < MaxUploads
                 /\ Step(w, [r EXCEPT !.pc = "save",
                                     !.filename = storage_filename(clock, name)])
    /\ UNCHANGED <<clock, videoStore, thumbStore, videos, users, sessions, flashed>>

\* video_file.save(video_path), line 67, and lines 69-70
VideoFileSave(w) ==
    /\ req[w].pc = "save"
    /\ LET r == req[w] IN
       /\ videoStore' = write(videoStore, r.filename)
       /\ Step(w, [r EXCEPT !.pc = "clip_open",
                            !.vNew = ~exists(videoStore, r.filename),
                            !.thumbnail_filename = thumbnail_filename(r.filename)])
    /\ UNCHANGED <<clock, thumbStore, videos, users, sessions, nextUpload, flashed>>

\* generate_thumbnail, line 39: VideoFileClip(video_path)
ClipOpen(w) ==
    /\ req[w].pc = "clip_open"
    /\ \E ok \in BOOLEAN :
         LET r == req[w] IN
         /\ ok => exists(videoStore, r.filename)
         /\ IF ok
            THEN Step(w, [r EXCEPT !.pc = "clip_frame", !.opened = @ \cup {"clip"}])
            ELSE Step(w, [r EXCEPT !.pc = "reader_open"])
    /\ UNCHANGED <<clock, videoStore, thumbStore, videos, users, sessions, nextUpload, flashed>>

\* generate_thumbnail, lines 40-43: duration, save_frame, close, return True.
\* The frame time min(1, duration) decides which picture is written, not
\* whether one is; an exception at line 40 or 41 skips the close of line 42.
ClipSaveFrame(w) ==
    /\ req[w].pc = "clip_frame"
    /\ \E outcome \in {"ok", "duration", "save_frame"} :
         LET r == req[w] IN
         IF outcome = "ok"
         THEN /\ thumbStore' = write(thumbStore, r.thumbnail_filename)
              /\ Step(w, [r EXCEPT !.pc = "saved", !.opened = @ \ {"clip"}])
         ELSE /\ thumbStore' = thumbStore
              /\ Step(w, [r EXCEPT !.pc = "reader_open"])
    /\ UNCHANGED <<clock, videoStore, videos, users, sessions, nextUpload, flashed>>

\* generate_thumbnail, line 47: imageio.get_reader(video_path)
ReaderOpen(w) ==
    /\ req[w].pc = "reader_open"
    /\ \E ok \in BOOLEAN :
         LET r == req[w] IN
         /\ ok => exists(videoStore, r.filename)
         /\ IF ok
            THEN Step(w, [r EXCEPT !.pc = "reader_frame", !.opened = @ \cup {"reader"}])
            ELSE Step(w, [r EXCEPT !.pc = "cleanup_exists", !.cause = "thumbnail"])
    /\ UNCHANGED <<clock, videoStore, thumbStore, videos, users, sessions, nextUpload, flashed>>

\* generate_thumbnail, lines 48-51: get_data(0), imwrite, close, return True;
\* an exception at line 48 or 49 skips the close of line 50 and becomes the
\* ThumbnailGenerationError of line 54, which save_video catches at line 76
ReaderWrite(w) ==
    /\ req[w].pc = "reader_frame"
    /\ \E outcome \in {"ok", "get_data", "imwrite"} :
         LET r == req[w] IN
         IF outcome = "ok"
         THEN /\ thumbStore' = write(thumbStore, r.thumbnail_filename)
              /\ Step(w, [r EXCEPT !.pc = "saved", !.opened = @ \ {"reader"}])
         ELSE /\ thumbStore' = thumbStore
              /\ Step(w, [r EXCEPT !.pc = "cleanup_exists", !.cause = "thumbnail"])
    /\ UNCHANGED <<clock, videoStore, videos, users, sessions, nextUpload, flashed>>

\* save_video, line 78: os.path.exists(video_path); line 80 when it is false
CleanupExists(w) ==
    /\ req[w].pc = "cleanup_exists"
    /\ LET r == req[w] IN
       IF exists(videoStore, r.filename)
       THEN Step(w, [r EXCEPT !.pc = "cleanup_remove"])
       ELSE Reply(w, r, "VideoUploadError", upload_response("VideoUploadError"))
    /\ UNCHANGED <<clock, videoStore, thumbStore, videos, users, sessions, nextUpload, flashed>>

\* save_video, lines 79-80: os.remove(video_path), which may raise OSError
CleanupRemove(w) ==
    /\ req[w].pc = "cleanup_remove"
    /\ \E ok \in BOOLEAN :
         LET r == req[w] IN
         /\ ok => exists(videoStore, r.filename)
         /\ IF ok
            THEN /\ videoStore' = remove(videoStore, r.filename)
                 /\ Reply(w, r, "VideoUploadError", upload_response("VideoUploadError"))
            ELSE /\ videoStore' = videoStore
                 /\ Reply(w, r, "OSError", upload_response("OSError"))
    /\ UNCHANGED <<clock, thumbStore, videos, users, sessions, nextUpload, flashed>>

\* upload(), lines 228-236: the Video row is added and committed.  The commit
\* fails on a row without a title (nullable=False) or when the database does.
\* The title is the form's; nothing reads it before this step.
UploadCommit(w) ==
    /\ req[w].pc = "saved"
    /\ \E ok \in BOOLEAN, title \in Titles :
         LET r == req[w] IN
         /\ ok => title # NoTitle
         /\ IF ok
            THEN /\ videos' = videos \cup
                        {[id |-> NextId(videos), title |-> title, filename |-> r.filename,
                          thumbnail_filename |-> r.thumbnail_filename]}
                 /\ Reply(w, r, "none", "ok")
            ELSE /\ videos' = videos
                 /\ Reply(w, r, "SQLAlchemyError", upload_response("SQLAlchemyError"))
    /\ UNCHANGED <<clock, videoStore, thumbStore, users, sessions, nextUpload, flashed>>

----------------------------------------------------------------------------
(* delete_video *)

VideoIds == 1..MaxUploads

\* delete_video, lines 246-253
delete_video(w) ==
    /\ Free(w)
    /\ \E u \in Clients, id \in VideoIds :
         LET r == [Idle EXCEPT !.op = "delete_video", !.target = id] IN
         IF ~Authenticated(u) THEN Reply(w, r, "none", "login")
         ELSE IF ~current_user(u).is_superuser THEN Reply(w, r, "none", "denied")
         ELSE IF ~\E v \in videos : v.id = id
              THEN Reply(w, [r EXCEPT !.cause = "not_found"], "NotFound", "flash_error")
         ELSE LET video == CHOOSE v \in videos : v.id = id IN
              Step(w, [r EXCEPT !.pc = "dv_video_exists",
                               !.filename = video.filename,
                               !.thumbnail_filename = video.thumbnail_filename])
    /\ UNCHANGED <<clock, videoStore, thumbStore, videos, users, sessions, nextUpload, flashed>>

\* line 255
DvVideoExists(w) ==
    /\ req[w].pc = "dv_video_exists"
    /\ LET r == req[w] IN
       IF exists(videoStore, r.filename)
       THEN Step(w, [r EXCEPT !.pc = "dv_video_remove"])
       ELSE Step(w, [r EXCEPT !.pc = "dv_thumb_exists"])
    /\ UNCHANGED <<clock, videoStore, thumbStore, videos, users, sessions, nextUpload, flashed>>

\* line 256; an exception goes to line 263
DvVideoRemove(w) ==
    /\ req[w].pc = "dv_video_remove"
    /\ \E ok \in BOOLEAN :
         LET r == req[w] IN
         /\ ok => exists(videoStore, r.filename)
         /\ IF ok
            THEN /\ videoStore' = remove(videoStore, r.filename)
                 /\ Step(w, [r EXCEPT !.pc = "dv_thumb_exists"])
            ELSE /\ videoStore' = videoStore
                 /\ Reply(w, [r EXCEPT !.cause = "video_remove"], "OSError", "flash_error")
    /\ UNCHANGED <<clock, thumbStore, videos, users, sessions, nextUpload, flashed>>

\* line 257
DvThumbExists(w) ==
    /\ req[w].pc = "dv_thumb_exists"
    /\ LET r == [req[w] EXCEPT !.thumbTried = TRUE] IN
       IF exists(thumbStore, r.thumbnail_filename)
       THEN Step(w, [r EXCEPT !.pc = "dv_thumb_remove"])
       ELSE Step(w, [r EXCEPT !.pc = "dv_commit"])
    /\ UNCHANGED <<clock, videoStore, thumbStore, videos, users, sessions, nextUpload, flashed>>

\* line 258; an exception goes to line 263
DvThumbRemove(w) ==
    /\ req[w].pc = "dv_thumb_remove"
    /\ \E ok \in BOOLEAN :
         LET r == req[w] IN
         /\ ok => exists(thumbStore, r.thumbnail_filename)
         /\ IF ok
            THEN /\ thumbStore' = remove(thumbStore, r.thumbnail_filename)
                 /\ Step(w, [r EXCEPT !.pc = "dv_commit"])
            ELSE /\ thumbStore' = thumbStore
                 /\ Reply(w, [r EXCEPT !.cause = "thumb_remove"], "OSError", "flash_error")
    /\ UNCHANGED <<clock, videoStore, videos, users, sessions, nextUpload, flashed>>

\* lines 260-264: DELETE of the row with the loaded primary key, and commit
DvCommit(w) ==
    /\ req[w].pc = "dv_commit"
    /\ \E ok \in BOOLEAN :
         LET r == [req[w] EXCEPT !.commitTried = TRUE] IN
         IF ok
         THEN /\ videos' = {v \in videos : v.id # r.target}
              /\ Reply(w, r, "none", "ok")
         ELSE /\ videos' = videos
              /\ Reply(w, r, "SQLAlchemyError", "flash_error")
    /\ UNCHANGED <<clock, videoStore, thumbStore, users, sessions, nextUpload, flashed>>

----------------------------------------------------------------------------
(* UserService and the handlers register, login and delete_user *)

MIN_PASSWORD_LENGTH == 8

\* User.query.filter_by(username=username).first(): a matching row, or None
NoUser == [id |-> 0]

first_by_username(username) ==
    IF \E x \in users : x.username = username
    THEN CHOOSE x \in users : x.username = username
    ELSE NoUser

\* the message of the AuthenticationError that leaves authenticate_user: the
\* except clause at lines 120-121 wraps the message of the one raised at 118
authenticate_failed(inner) == <<"Authentication failed: ", inner>>

\* a table without the unique constraint
unique_username_unchecked(username) == FALSE

\* username = db.Column(db.String(80), unique=True, ...), line 146: the commit
\* of a row whose username is already in the table raises IntegrityError
unique_username_violated(username) == \E x \in users : x.username = username

\* UserService.create_user down to line 106, as register calls it
create_user(w) ==
    /\ Free(w)
    /\ \E username \in Usernames, password \in Passwords :
         LET r == [Idle EXCEPT !.op = "create_user", !.username = username,
                               !.password = password] IN
         IF Len(password) < MIN_PASSWORD_LENGTH
         THEN Reply(w, [r EXCEPT !.cause = "password"], "AuthenticationError", "flash")
         ELSE IF first_by_username(username) # NoUser
         THEN Reply(w, [r EXCEPT !.cause = "exists"], "AuthenticationError", "flash")
         ELSE Step(w, [r EXCEPT !.pc = "cu_commit"])
    /\ UNCHANGED <<clock, videoStore, thumbStore, videos, users, sessions, nextUpload, flashed>>

\* UserService.create_user, lines 107-111: commit, or rollback and raise.
\* MaxUsers caps the size of the table.
CreateUserCommit(w) ==
    /\ req[w].pc = "cu_commit"
    /\ \E ok \in BOOLEAN :
         LET r == req[w] IN
         /\ ok => ~unique_username_violated(r.username)
         /\ IF ok
            THEN /\ Cardinality(users) < MaxUsers
                 /\ users' = users \cup {Registered(NextId(users), r.username, r.password)}
                 /\ Reply(w, r, "none", "ok")
            ELSE /\ users' = users
                 /\ Reply(w, [r EXCEPT !.cause = IF unique_username_violated(r.username)
                                               THEN "integrity" ELSE "commit"],
                          "AuthenticationError", "flash")
    /\ UNCHANGED <<clock, videoStore, thumbStore, videos, sessions, nextUpload, flashed>>

\* a variant of authenticate_user that tells an unknown username apart
authenticate_user_telling(username, password) ==
    LET user == first_by_username(username) IN
    IF user = NoUser
    THEN [ok |-> FALSE, found |-> FALSE, msg |-> authenticate_failed("Unknown username")]
    ELSE IF ~check_password_hash(user.password_hash, password)
    THEN [ok |-> FALSE, found |-> TRUE, msg |-> authenticate_failed("Invalid username or password")]
    ELSE [ok |-> TRUE, found |-> TRUE, id |-> user.id]

\* UserService.authenticate_user, lines 113-121.  `found` records which half
\* of the condition at line 117 held; the caller does not get it.
authenticate_user(username, password) ==
    LET user == first_by_username(username) IN
    IF user = NoUser \/ ~check_password_hash(user.password_hash, password)
    THEN [ok |-> FALSE, found |-> user # NoUser,
          msg |-> authenticate_failed("Invalid username or password")]
    ELSE [ok |-> TRUE, found |-> TRUE, id |-> user.id]

\* login(), lines 196-206
login(w) ==
    /\ Free(w)
    /\ \E username \in Usernames, password \in Passwords :
         LET r == [Idle EXCEPT !.op = "login", !.username = username]
             a == authenticate_user(username, password) IN
         IF a.ok
         THEN /\ sessions' = sessions \cup {a.id}
              /\ flashed' = flashed
              /\ Reply(w, r, "none", "ok")
         ELSE /\ sessions' = sessions
              /\ flashed' = flashed \cup {[found |-> a.found, msg |-> a.msg]}
              /\ Reply(w, [r EXCEPT !.cause = "credentials"], "AuthenticationError", "flash")
    /\ UNCHANGED <<clock, videoStore, thumbStore, videos, users, nextUpload>>

UserIds == 1..MaxUsers

\* a variant of the check at line 293 that refuses nothing
may_not_delete_none(user) == FALSE

\* delete_user, line 293: superuser accounts are not deleted
may_not_delete(user) == user.is_superuser

\* delete_user, lines 288-295
delete_user(w) ==
    /\ Free(w)
    /\ \E u \in Clients, id \in UserIds :
         LET r == [Idle EXCEPT !.op = "delete_user", !.target = id] IN
         IF ~Authenticated(u) THEN Reply(w, r, "none", "login")
         ELSE IF ~current_user(u).is_superuser THEN Reply(w, r, "none", "denied")
         ELSE IF ~\E x \in users : x.id = id
              THEN Reply(w, [r EXCEPT !.cause = "not_found"], "NotFound", "error404")
         ELSE LET user == CHOOSE x \in users : x.id = id IN
              IF may_not_delete(user)
              THEN Reply(w, [r EXCEPT !.cause = "superuser", !.username = user.username],
                         "none", "refused")
              ELSE Step(w, [r EXCEPT !.pc = "du_commit", !.username = user.username])
    /\ UNCHANGED <<clock, videoStore, thumbStore, videos, users, sessions, nextUpload, flashed>>

\* delete_user, lines 297-304: DELETE of the row with the loaded primary key
DeleteUserCommit(w) ==
    /\ req[w].pc = "du_commit"
    /\ \E ok \in BOOLEAN :
         LET r == req[w] IN
         IF ok
         THEN /\ users' = {x \in users : x.id # r.target}
              /\ Reply(w, r, "none", "ok")
         ELSE /\ users' = users
              /\ Reply(w, [r EXCEPT !.cause = "commit"], "SQLAlchemyError", "flash_error")
    /\ UNCHANGED <<clock, videoStore, thumbStore, videos, sessions, nextUpload, flashed>>

----------------------------------------------------------------------------
(* The environment *)

\* a second passes
Tick ==
    /\ clock < MaxTime
    /\ clock' = clock + 1
    /\ response' = NoResponse
    /\ UNCHANGED <<videoStore, thumbStore, videos, users, sessions, nextUpload, req, flashed>>

\* after the start-up block (lines 306-326) on an empty database
Init ==
    /\ clock = 0
    /\ videoStore = {}
    /\ thumbStore = {}
    /\ videos = {}
    /\ users = {Superuser}
    /\ sessions = {}
    /\ nextUpload = 0
    /\ req = [w \in Workers |-> Idle]
    /\ response = NoResponse
    /\ flashed = {}

\* the same, after bob has registered and piyu and bob have logged in
InitVideo ==
    /\ clock = 0
    /\ videoStore = {}
    /\ thumbStore = {}
    /\ videos = {}
    /\ users = {Superuser, Registered(2, "bob", "password1")}
    /\ sessions = {1, 2}
    /\ nextUpload = 0
    /\ req = [w \in Workers |-> Idle]
    /\ response = NoResponse
    /\ flashed = {}

NextVideo ==
    \/ Tick
    \/ \E w \in Workers :
         \/ upload(w)
         \/ VideoFileSave(w)
         \/ ClipOpen(w)
         \/ ClipSaveFrame(w)
         \/ ReaderOpen(w)
         \/ ReaderWrite(w)
         \/ CleanupExists(w)
         \/ CleanupRemove(w)
         \/ UploadCommit(w)
         \/ delete_video(w)
         \/ DvVideoExists(w)
         \/ DvVideoRemove(w)
         \/ DvThumbExists(w)
         \/ DvThumbRemove(w)
         \/ DvCommit(w)

SpecVideo == InitVideo /\ [][NextVideo]_vars

NextUser ==
    \E w \in Workers :
      \/ create_user(w)
      \/ CreateUserCommit(w)
      \/ login(w)
      \/ delete_user(w)
      \/ DeleteUserCommit(w)

SpecUser == Init /\ [][NextUser]_vars

----------------------------------------------------------------------------
(* The claims *)

\* C1: a save_video call whose file name has an extension outside the allowed
\* set fails with VideoUploadError and leaves both asset stores as they were.
C1_RejectedWithUploadError ==
    [][(response'.op = "upload" /\ response'.cause = "file_type")
         => /\ response'.raised = "VideoUploadError"
            /\ videoStore' = videoStore
            /\ thumbStore' = thumbStore]_vars

\* C2: when thumbnail extraction has failed in both paths, the request ends
\* with the video asset it wrote removed, with VideoUploadError raised by
\* save_video, and without having changed the Video rows.
C2_ThumbnailFailureCleansUp ==
    [][(response'.op = "upload" /\ response'.cause = "thumbnail")
         => /\ response'.raised = "VideoUploadError"
            /\ ~exists(videoStore', response'.filename)
            /\ videos' = videos]_vars

\* C3: whenever no request is in progress, every Video row's filename names a
\* file that exists in the video asset store.
C3_RowsHaveFiles ==
    (\A w \in Workers : Free(w)) => \A v \in videos : exists(videoStore, v.filename)

\* C4: a delete_video in which the removal of the video asset or of the
\* thumbnail asset failed has still tried the thumbnail, has still
\* committed, and the Video row is gone.
C4_DeleteDespiteRemoveFailure ==
    (response.op = "delete_video" /\ response.cause \in {"video_remove", "thumb_remove"})
      => /\ response.thumbTried
         /\ response.commitTried
         /\ ~\E v \in videos : v.id = response.target

\* C5: a save_video call that returns has added one asset to the video store
\* and one to the thumbnail store, and at its return both returned names
\* exist in their stores.
C5_SuccessAddsOneAssetEach ==
    [][\A w \in Workers :
         (req[w].pc # "saved" /\ req'[w].pc = "saved")
           => /\ req'[w].vNew
              /\ Cardinality(thumbStore') = Cardinality(thumbStore) + 1
              /\ exists(videoStore', req'[w].filename)
              /\ exists(thumbStore', req'[w].thumbnail_filename)]_vars

RowsNamed(username) == {x \in users : x.username = username}

\* C6: no two User rows share a username; a create_user call for a username
\* that is taken, found taken either by the query or by the commit, fails
\* with AuthenticationError and exactly one row has that username afterward.
C6_UniqueUsernames ==
    /\ \A x, y \in users : x.username = y.username => x = y
    /\ (response.op = "create_user" /\ response.cause \in {"exists", "integrity"})
         => /\ response.raised = "AuthenticationError"
            /\ Cardinality(RowsNamed(response.username)) = 1
    /\ (response.op = "create_user" /\ response.result = "ok")
         => Cardinality(RowsNamed(response.username)) = 1

\* two create_user calls for one username passed the query together, and the
\* commit of the second was refused by the table
C6_Witness ==
    /\ response.op = "create_user"
    /\ response.cause = "integrity"
    /\ response.raised = "AuthenticationError"
    /\ Cardinality(RowsNamed(response.username)) = 1

\* C7: no step removes a superuser row, and a delete_user request that is
\* answered with the refusal for superuser targets changes no User row.
C7_SuperuserNeverDeleted ==
    [][/\ \A x \in users : x.is_superuser => x \in users'
       /\ (response'.op = "delete_user" /\ response'.cause = "superuser")
            => users' = users]_vars

\* a superuser has asked to delete a superuser and has been refused
C7_Witness ==
    /\ response.op = "delete_user"
    /\ response.result = "refused"
    /\ \E x \in users : x.id = response.target /\ x.is_superuser

C9_CommitFailureRemovesAssets ==
    (response.op = "upload" /\ response.raised = "SQLAlchemyError")
      => /\ ~exists(videoStore, response.filename)
         /\ ~exists(thumbStore, response.thumbnail_filename)

\* C10: when generate_thumbnail has returned or raised, every clip and reader
\* it opened is closed.
C10_ReadersClosed ==
    \A w \in Workers : req[w].pc \in {"saved", "cleanup_exists"} => req[w].opened = {}

====
